---- MODULE Spec2Model ----
(***************************************************************************)
(* Model of the batch ETL loader (complete_etl.py) and of the repository   *)
(* layer it writes through (repositories/*.py).                            *)
(*                                                                         *)
(* A string is a sequence of one-character strings, so that strip, lower   *)
(* and split are computed character by character as Python and SQL do.     *)
(* A cell of the data frame is a record [k, s, n]: k is "none" (no value), *)
(* "nan" (the float NaN pandas gives an empty cell), "str" or "int".       *)
(***************************************************************************)
EXTENDS Integers, Sequences, FiniteSets, TLC

(* ------------------------------ bounds --------------------------------- *)
MaxRows == 2
MaxFaults == 2

(* ------------------------------ strings -------------------------------- *)
None == 0

LowerChar(c) ==
    CASE c = "A" -> "a" [] c = "B" -> "b" [] c = "C" -> "c"
      [] c = "E" -> "e" [] c = "G" -> "g" [] c = "L" -> "l"
      [] c = "M" -> "m" [] c = "P" -> "p" [] OTHER -> c

LOWER(s) == [i \in 1..Len(s) |-> LowerChar(s[i])]

IsSpace(c) == c = " "

RECURSIVE lstrip(_)
lstrip(s) == IF s # <<>> /\ IsSpace(Head(s)) THEN lstrip(Tail(s)) ELSE s

RECURSIVE rstrip(_)
rstrip(s) ==
    IF s # <<>> /\ IsSpace(s[Len(s)]) THEN rstrip(SubSeq(s, 1, Len(s) - 1)) ELSE s

strip(s) == rstrip(lstrip(s))

RECURSIVE splitAcc(_, _, _)
splitAcc(s, d, cur) ==
    IF s = <<>> THEN <<cur>>
    ELSE IF Head(s) = d THEN <<cur>> \o splitAcc(Tail(s), d, <<>>)
    ELSE splitAcc(Tail(s), d, Append(cur, Head(s)))

split(s, d) == splitAcc(s, d, <<>>)

IsDigit(c) == c \in {"0", "1", "2", "3", "4", "5", "6", "7", "8", "9"}

DigitVal(c) ==
    CASE c = "0" -> 0 [] c = "1" -> 1 [] c = "2" -> 2 [] c = "3" -> 3
      [] c = "4" -> 4 [] c = "5" -> 5 [] c = "6" -> 6 [] c = "7" -> 7
      [] c = "8" -> 8 [] OTHER -> 9

DigitChar(n) ==
    CASE n = 0 -> "0" [] n = 1 -> "1" [] n = 2 -> "2" [] n = 3 -> "3"
      [] n = 4 -> "4" [] n = 5 -> "5" [] n = 6 -> "6" [] n = 7 -> "7"
      [] n = 8 -> "8" [] OTHER -> "9"

RECURSIVE Digits(_)
Digits(n) == IF n < 10 THEN <<DigitChar(n)>> ELSE Append(Digits(n \div 10), DigitChar(n % 10))

RECURSIVE DigitsVal(_, _)
DigitsVal(s, acc) ==
    IF s = <<>> THEN acc ELSE DigitsVal(Tail(s), 10 * acc + DigitVal(Head(s)))

(* ------------------------------- cells --------------------------------- *)
NoneCell == [k |-> "none", s |-> <<>>, n |-> 0]
NaN == [k |-> "nan", s |-> <<>>, n |-> 0]
StrCell(s) == [k |-> "str", s |-> s, n |-> 0]
IntCell(n) == [k |-> "int", s |-> <<>>, n |-> n]

\* Python truthiness: None, "" and 0 are falsy; NaN is truthy
Truthy(c) ==
    CASE c.k = "none" -> FALSE
      [] c.k = "nan" -> TRUE
      [] c.k = "str" -> c.s # <<>>
      [] OTHER -> c.n # 0

isna(c) == c.k \in {"nan", "none"}

\* Python str(): str(nan) is "nan", str(None) is "None"
str(c) ==
    CASE c.k = "str" -> c.s
      [] c.k = "nan" -> <<"n", "a", "n">>
      [] c.k = "none" -> <<"N", "o", "n", "e">>
      [] OTHER -> IF c.n < 0 THEN <<"-">> \o Digits(0 - c.n) ELSE Digits(c.n)

\* Python int(): [ok |-> FALSE] stands for the ValueError / TypeError raised
int(c) ==
    CASE c.k = "int" -> [ok |-> TRUE, v |-> c.n]
      [] c.k = "str" ->
           LET t == strip(c.s)
               neg == t # <<>> /\ Head(t) \in {"-", "+"}
               d == IF neg THEN Tail(t) ELSE t
           IN IF d # <<>> /\ \A i \in 1..Len(d) : IsDigit(d[i])
              THEN [ok |-> TRUE,
                    v |-> IF neg /\ Head(t) = "-" THEN 0 - DigitsVal(d, 0) ELSE DigitsVal(d, 0)]
              ELSE [ok |-> FALSE, v |-> 0]
      [] OTHER -> [ok |-> FALSE, v |-> 0]

(* ------------------------------ source --------------------------------- *)
\* the recognised columns of the CSV file that run_simple_etl reads after normalising the header
AllCols == {"title", "text", "view_count", "project_name", "namespace_name", "categories"}

sGo == <<"G", "o">>
sgoPadded == <<" ", "g", "o", " ">>
sPy == <<"P", "y">>
sBlank == <<" ">>
sLang == <<"l", "a", "n", "g">>
sEng == <<"E", "n", "g">>
sEngLower == <<"e", "n", "g">>
sMain == <<"M", "a", "i", "n">>
sX == <<"x">>
sLanguages == <<"L", "a", "n", "g", "u", "a", "g", "e", "s">>
sProgramming == <<"P", "r", "o", "g", "r", "a", "m", "m", "i", "n", "g">>
sLangProg == <<"L", "a", "n", "g", "u", "a", "g", "e", "s", ";", "P", "r", "o", "g", "r", "a", "m", "m", "i", "n", "g">>
sABC == <<"A", ";", " ", "B", " ", ";", "C">>
sA == <<"A">>
sALower == <<"a">>
sB == <<"B">>
sC == <<"C">>
sDupCats == <<"a", ";", "A", ";", ";", "a">>
sNan == <<"n", "a", "n">>

Row(t, x, v, pr, ns, c) ==
    [title |-> t, text |-> x, view_count |-> v, project_name |-> pr,
     namespace_name |-> ns, categories |-> c]

\* rows a CSV file can hold once pandas has parsed it
RowGo == Row(StrCell(sGo), StrCell(sLang), IntCell(5), StrCell(sEng), StrCell(sMain), StrCell(sLangProg))
RowGoAgain == Row(StrCell(sgoPadded), StrCell(sLang), IntCell(5), StrCell(sEngLower), NaN, StrCell(sABC))
RowEmptyTitle == Row(NaN, NaN, IntCell(5), NaN, NaN, NaN)
RowBlankTitle == Row(StrCell(sBlank), StrCell(sLang), IntCell(5), StrCell(sEng), StrCell(sMain), StrCell(sA))
RowNoViews == Row(StrCell(sPy), StrCell(sLang), NaN, StrCell(sEng), StrCell(sMain), StrCell(sA))
RowBadViews == Row(StrCell(sPy), StrCell(sLang), StrCell(sX), StrCell(sEng), NaN, StrCell(sA))
RowPy == Row(StrCell(sPy), StrCell(sBlank), IntCell(0 - 1), StrCell(sBlank), StrCell(sMain), StrCell(sDupCats))

CandidateRows == {RowGo, RowGoAgain, RowEmptyTitle, RowBlankTitle, RowNoViews, RowBadViews, RowPy}

\* a file has its header once: a column is there for every row or for none
ColumnSets == {AllCols} \cup {AllCols \ {c} : c \in AllCols}

RECURSIVE SeqsUpTo(_, _)
SeqsUpTo(S, n) ==
    IF n = 0 THEN {<<>>}
    ELSE LET shorter == SeqsUpTo(S, n - 1)
         IN shorter \cup {Append(q, x) : q \in {r \in shorter : Len(r) = n - 1}, x \in S}

Sources == {[cols |-> cs, rows |-> rs] : cs \in ColumnSets, rs \in SeqsUpTo(CandidateRows, MaxRows)}

(* ------------------------------- state --------------------------------- *)
Procs == {1, 2}

VARIABLES
    source,           \* the data frame read from the CSV file: [cols, rows]
    mode,             \* "single": one run; "rerun": run 2 starts when run 1 has returned;
                      \* "sequence": as "rerun", each run with a file of its own;
                      \* "concurrent": two independent runs against the same store
    faultsLeft,       \* how many more storage operations may raise SQLAlchemyError
    page, project, namespace, category, page_category,   \* the tables, in insertion order
    pc,               \* per run: the storage interaction it is about to perform
    idx,              \* per run: position of df.iterrows()
    stats,            \* per run: the stats dictionary of run_simple_etl
    project_cache, namespace_cache,   \* per run: the dictionaries of RepositoryBasedETL
    loc,              \* per run: the local variables of process_row_with_repository
    call,             \* history: what the current call of process_row_with_repository did
    last,             \* history: the last finished call of process_row_with_repository
    pagesAtReturn,    \* history: the number of page rows when the run returned
    resolved,         \* history, per run: what _get_or_create_cached has returned
    http              \* the request the aggregator is handling (aggregate.py)

vars == <<source, mode, faultsLeft, page, project, namespace, category, page_category,
          pc, idx, stats, project_cache, namespace_cache, loc, call, last, pagesAtReturn, resolved, http>>

\* what the batch loader works on; the aggregator touches none of it
etl == <<source, mode, faultsLeft, page, project, namespace, category, page_category,
         pc, idx, stats, project_cache, namespace_cache, loc, call, last, pagesAtReturn, resolved>>

tables == <<page, project, namespace, category, page_category>>

EmptyCache == [n \in {} |-> None]

NoLoc == [title |-> <<>>, project_id |-> None, namespace_id |-> None, text |-> <<>>,
          views |-> 0, page_id |-> None, tokens |-> <<>>, ti |-> 0, category_id |-> None]

\* the sizes of the tables and of the caches of run p
Sizes(p) == [page |-> Len(page), project |-> Len(project), namespace |-> Len(namespace),
             category |-> Len(category), page_category |-> Len(page_category),
             project_cache |-> Cardinality(DOMAIN project_cache[p]),
             namespace_cache |-> Cardinality(DOMAIN namespace_cache[p])]

NoSizes == [page |-> 0, project |-> 0, namespace |-> 0, category |-> 0, page_category |-> 0,
            project_cache |-> 0, namespace_cache |-> 0]

NoCall == [row |-> 0, title |-> <<>>, existed |-> FALSE, start |-> NoSizes, pages |-> 0,
           projects |-> 0, namespaces |-> 0, categories |-> 0, cached |-> 0,
           links |-> <<>>, faults |-> <<>>]

NoLast == [valid |-> FALSE, result |-> FALSE, log |-> NoCall, loc |-> NoLoc,
           before |-> [total_rows |-> 0, pages_created |-> 0, pages_skipped |-> 0],
           after |-> [total_rows |-> 0, pages_created |-> 0, pages_skipped |-> 0]]

\* the aggregator is handling no request
NoResponse == [kind |-> "none", status |-> 0, body |-> "none"]

NoSent == [method |-> "none", service |-> "none", path |-> <<>>]

NoRequest == [phase |-> "idle", path |-> <<>>, endpoint |-> "none", id |-> "none",
              sent |-> NoSent, upstream |-> NoResponse, reply |-> NoResponse]

InitWith(m, f) ==
    /\ source \in Sources
    /\ mode = m
    /\ faultsLeft = f
    /\ page = <<>> /\ project = <<>> /\ namespace = <<>>
    /\ category = <<>> /\ page_category = <<>>
    /\ pc = [p \in Procs |-> "idle"]
    /\ idx = [p \in Procs |-> 0]
    /\ stats = [p \in Procs |-> [total_rows |-> 0, pages_created |-> 0, pages_skipped |-> 0]]
    /\ project_cache = [p \in Procs |-> EmptyCache]
    /\ namespace_cache = [p \in Procs |-> EmptyCache]
    /\ loc = [p \in Procs |-> NoLoc]
    /\ call = [p \in Procs |-> NoCall]
    /\ last = [p \in Procs |-> NoLast]
    /\ pagesAtReturn = [p \in Procs |-> 0]
    /\ resolved = [p \in Procs |-> <<>>]
    /\ http = NoRequest

\* one run, in which up to MaxFaults storage operations fail, over a file
\* that has every column, or every column but title
Init ==
    /\ InitWith("single", MaxFaults)
    /\ AllCols \ source.cols \subseteq {"title"}

\* the batch run twice in sequence over the same source, no storage failure
InitRerun == InitWith("rerun", 0)

\* one run over a one-record file, then a run over another one-record file
\* against the same store, no storage failure
InitSequence ==
    /\ InitWith("sequence", 0)
    /\ Len(source.rows) = 2

\* the aggregator alone: no batch run, an empty file
InitAggregate ==
    /\ InitWith("aggregate", 0)
    /\ source = [cols |-> AllCols, rows |-> <<>>]

\* one run with storage failures over a complete file of MaxRows records,
\* each one of three records that take the three ways through the Row
\* Processor: stored with its references and categories, no title,
\* view_count not a number
InitReturns ==
    /\ InitWith("single", MaxFaults)
    /\ source.cols = AllCols
    /\ Len(source.rows) = MaxRows
    /\ \A i \in 1..MaxRows : source.rows[i] \in {RowGo, RowEmptyTitle, RowBadViews}

\* two independent runs against the same store, no storage failure: run p
\* reads the one-record file that holds record p of source
InitConcurrent ==
    /\ InitWith("concurrent", 0)
    /\ source.cols = AllCols
    /\ Len(source.rows) = 2

(* --------------------------- storage layer ----------------------------- *)
\* the outcomes of one DatabaseConnection.get_session scope: TRUE commits,
\* FALSE raises SQLAlchemyError inside the scope, which rolls back. A scope
\* holds one statement, so it fails before its commit or not at all. The
\* identifier of a new row is the length of the table plus one: no row is
\* ever deleted by the loader.
Outcomes == IF faultsLeft > 0 THEN {TRUE, FALSE} ELSE {TRUE}

Spend(ok) == faultsLeft' = IF ok THEN faultsLeft ELSE faultsLeft - 1

\* the statement runs, and an error raised afterwards leaves its row in the
\* store: the session is not rolled back
get_session_NoRollback(t, row, ok) == Append(t, row)

\* DatabaseConnection.get_session around one INSERT: yield session, commit;
\* on any exception rollback and re-raise. The table afterwards has the new
\* row when the interaction succeeded and is as it was when it failed.
get_session(t, row, ok) == IF ok THEN Append(t, row) ELSE t

Rows(t) == {t[i] : i \in 1..Len(t)}

\* the query with LOWER() forgotten on the column
PagesByTitle_ColumnNotLowered(title) == {r \in Rows(page) : r.title = LOWER(title)}

\* SELECT * FROM page WHERE LOWER(title) = LOWER(:title)
PagesByTitle(title) == {r \in Rows(page) : LOWER(r.title) = LOWER(title)}

\* SELECT * FROM category WHERE LOWER(name) = LOWER(:name)
CategoriesByName(name) == {r \in Rows(category) : LOWER(r.name) = LOWER(name)}

\* row.get(col, default) on the dictionary of one data-frame row
get(row, col, default) == IF col \in source.cols THEN row[col] ELSE default

\* df of run p: both runs of a rerun read the same file; otherwise two runs
\* read two files, of one record each
File(p) == IF mode \in {"sequence", "concurrent"} THEN <<source.rows[p]>> ELSE source.rows

CurrentRow(p) == File(p)[idx[p]]

\* what _cache_projects_and_namespaces would put into a cache from table t:
\* for row in result: cache[row.name] = row.id
CacheOf(t) ==
    [n \in {r.name : r \in Rows(t)} |->
        LET ids == {r.id : r \in {x \in Rows(t) : x.name = n}}
        IN CHOOSE i \in ids : \A k \in ids : k <= i]

\* the identifier of the new row is returned and not remembered
CachePut_NotStored(cache, name, id) == cache

\* the number of rows the INSERT affected is remembered in place of the
\* identifier it returned
CachePut_RowCount(cache, name, id) ==
    [n \in DOMAIN cache \cup {name} |-> IF n = name THEN 1 ELSE cache[n]]

\* cache[name] = entity_id
CachePut(cache, name, id) ==
    [n \in DOMAIN cache \cup {name} |-> IF n = name THEN id ELSE cache[n]]

\* the categories field split on a comma instead of a semicolon
CategoryTokens_Comma(s) ==
    LET RECURSIVE keep(_)
        keep(parts) == IF parts = <<>> THEN <<>>
                       ELSE IF strip(Head(parts)) # <<>>
                            THEN <<strip(Head(parts))>> \o keep(Tail(parts))
                            ELSE keep(Tail(parts))
    IN keep(split(s, ","))

\* [cat.strip() for cat in categories_str.split(';') if cat.strip()]
RECURSIVE StripNonEmpty(_)
StripNonEmpty(parts) ==
    IF parts = <<>> THEN <<>>
    ELSE IF strip(Head(parts)) # <<>>
         THEN <<strip(Head(parts))>> \o StripNonEmpty(Tail(parts))
         ELSE StripNonEmpty(Tail(parts))

\* a name is kept the first time it occurs in the field only, letter case aside
CategoryTokens_Deduplicated(s) ==
    LET all == StripNonEmpty(split(s, ";"))
        first == {i \in 1..Len(all) : \A k \in 1..(i - 1) : LOWER(all[k]) # LOWER(all[i])}
        RECURSIVE pick(_)
        pick(i) == IF i > Len(all) THEN <<>>
                   ELSE IF i \in first THEN <<all[i]>> \o pick(i + 1) ELSE pick(i + 1)
    IN pick(1)

CategoryTokens(s) == StripNonEmpty(split(s, ";"))

(* ------------------------- control-flow helpers ------------------------ *)
LogFault(lg, ok, op, tok) ==
    IF ok THEN lg ELSE [lg EXCEPT !.faults = Append(@, [op |-> op, tok |-> tok])]

\* the loop counts the created pages only
Finish_SkippedUncounted(p, result, newloc, lg) ==
    LET after == IF result = TRUE
                 THEN [stats[p] EXCEPT !.pages_created = @ + 1]
                 ELSE stats[p]
    IN /\ stats' = [stats EXCEPT ![p] = after]
       /\ idx' = [idx EXCEPT ![p] = @ + 1]
       /\ pc' = [pc EXCEPT ![p] = "row"]
       /\ loc' = [loc EXCEPT ![p] = newloc]
       /\ call' = [call EXCEPT ![p] = lg]
       /\ last' = [last EXCEPT ![p] = [valid |-> TRUE, result |-> result, log |-> lg,
                                       loc |-> newloc, before |-> stats[p], after |-> after]]

\* a record whose call returned False is handed to the Row Processor again
Finish_Retried(p, result, newloc, lg) ==
    LET after == IF result = TRUE
                 THEN [stats[p] EXCEPT !.pages_created = @ + 1]
                 ELSE [stats[p] EXCEPT !.pages_skipped = @ + 1]
    IN /\ stats' = [stats EXCEPT ![p] = after]
       /\ idx' = [idx EXCEPT ![p] = IF result = TRUE THEN @ + 1 ELSE @]
       /\ pc' = [pc EXCEPT ![p] = "row"]
       /\ loc' = [loc EXCEPT ![p] = newloc]
       /\ call' = [call EXCEPT ![p] = lg]
       /\ last' = [last EXCEPT ![p] = [valid |-> TRUE, result |-> result, log |-> lg,
                                       loc |-> newloc, before |-> stats[p], after |-> after]]

\* process_row_with_repository returns result; the loop of run_simple_etl counts it
Finish(p, result, newloc, lg) ==
    LET after == IF result = TRUE
                 THEN [stats[p] EXCEPT !.pages_created = @ + 1]
                 ELSE [stats[p] EXCEPT !.pages_skipped = @ + 1]
    IN /\ stats' = [stats EXCEPT ![p] = after]
       /\ idx' = [idx EXCEPT ![p] = @ + 1]
       /\ pc' = [pc EXCEPT ![p] = "row"]
       /\ loc' = [loc EXCEPT ![p] = newloc]
       /\ call' = [call EXCEPT ![p] = lg]
       /\ last' = [last EXCEPT ![p] = [valid |-> TRUE, result |-> result, log |-> lg,
                                       loc |-> newloc, before |-> stats[p], after |-> after]]

Goto(p, label, newloc, lg) ==
    /\ pc' = [pc EXCEPT ![p] = label]
    /\ loc' = [loc EXCEPT ![p] = newloc]
    /\ call' = [call EXCEPT ![p] = lg]
    /\ UNCHANGED <<idx, stats, last>>

\* the loop left after its first category
NextCategory_ReturnsEarly(p, lg) == Finish(p, TRUE, loc[p], lg)

\* the for loop of _process_categories_for_page moves to the next name, or
\* the call returns True after the last one
NextCategory(p, lg) ==
    IF loc[p].ti < Len(loc[p].tokens)
    THEN Goto(p, "cat_get", [loc[p] EXCEPT !.ti = @ + 1, !.category_id = None], lg)
    ELSE Finish(p, TRUE, loc[p], lg)

(* ------------------------------ the driver ----------------------------- *)
\* run_simple_etl up to the loop: a new RepositoryBasedETL with empty caches,
\* the file read, the stats initialised
Start(p) ==
    /\ pc[p] = "idle"
    /\ \/ p = 1
       \/ mode \in {"rerun", "sequence"} /\ pc[1] = "done"
       \/ mode = "concurrent"
    /\ project_cache' = [project_cache EXCEPT ![p] = EmptyCache]
    /\ namespace_cache' = [namespace_cache EXCEPT ![p] = EmptyCache]
    /\ stats' = [stats EXCEPT ![p] = [total_rows |-> Len(File(p)),
                                      pages_created |-> 0, pages_skipped |-> 0]]
    /\ idx' = [idx EXCEPT ![p] = 1]
    /\ pc' = [pc EXCEPT ![p] = "row"]
    /\ UNCHANGED <<source, mode, faultsLeft, tables, loc, call, last, pagesAtReturn, resolved, http>>

\* the loop is exhausted: run_simple_etl returns stats
Return(p) ==
    /\ pc[p] = "row"
    /\ idx[p] > Len(File(p))
    /\ pc' = [pc EXCEPT ![p] = "done"]
    /\ pagesAtReturn' = [pagesAtReturn EXCEPT ![p] = Len(page)]
    /\ UNCHANGED <<source, mode, faultsLeft, tables, idx, stats, project_cache,
                   namespace_cache, loc, call, last, resolved, http>>

(* ----------------------- process_row_with_repository ------------------- *)
\* title = str(row.get('title', '')).strip(); if not title: return False
BeginRow(p) ==
    /\ pc[p] = "row"
    /\ idx[p] <= Len(File(p))
    /\ LET title == strip(str(get(CurrentRow(p), "title", StrCell(<<>>))))
           lg == [NoCall EXCEPT !.row = idx[p], !.title = title, !.start = Sizes(p),
                                !.existed = PagesByTitle(title) # {}]
           nl == [NoLoc EXCEPT !.title = title]
       IN IF title = <<>>
          THEN Finish(p, FALSE, nl, lg)
          ELSE Goto(p, "check", nl, lg)
    /\ UNCHANGED <<source, mode, faultsLeft, tables, project_cache, namespace_cache,
                   pagesAtReturn, resolved, http>>

\* the lookup comparing the title as written, letter case included
get_by_title_CaseSensitive(title, ok) == ok /\ \E r \in Rows(page) : r.title = title

\* PageRepository.get_by_title: a row if one matches, None if none matches
\* and None as well when the query raises SQLAlchemyError
get_by_title(title, ok) == ok /\ PagesByTitle(title) # {}

\* a record whose title is stored already has its categories linked to the
\* stored page
CheckExists_LinksExisting(p) ==
    /\ pc[p] = "check"
    /\ \E ok \in Outcomes :
         /\ Spend(ok)
         /\ LET lg == LogFault(call[p], ok, "get_by_title", 0)
                c == get(CurrentRow(p), "categories", NoneCell)
                toks == IF Truthy(c) /\ ~isna(c) THEN CategoryTokens(str(c)) ELSE <<>>
            IN IF get_by_title(loc[p].title, ok)
               THEN IF toks = <<>>
                    THEN Finish(p, FALSE, loc[p], lg)
                    ELSE LET old == CHOOSE r \in PagesByTitle(loc[p].title) : TRUE
                         IN Goto(p, "cat_get",
                                 [loc[p] EXCEPT !.page_id = old.id, !.tokens = toks, !.ti = 1],
                                 lg)
               ELSE Goto(p, "project", loc[p], lg)
    /\ UNCHANGED <<source, mode, tables, project_cache, namespace_cache, pagesAtReturn, resolved, http>>

\* existing = self.page_repo.get_by_title(title); if existing: return False
CheckExists(p) ==
    /\ pc[p] = "check"
    /\ \E ok \in Outcomes :
         /\ Spend(ok)
         /\ LET lg == LogFault(call[p], ok, "get_by_title", 0)
            IN IF get_by_title(loc[p].title, ok)
               THEN Finish(p, FALSE, loc[p], lg)
               ELSE Goto(p, "project", loc[p], lg)
    /\ UNCHANGED <<source, mode, tables, project_cache, namespace_cache, pagesAtReturn, resolved, http>>

\* the cache is searched without regard to letter case
Resolve_CaseInsensitive(cell, cache) ==
    IF ~(Truthy(cell) /\ ~isna(cell))
    THEN [db |-> FALSE, name |-> <<>>, id |-> None]
    ELSE LET name == strip(str(cell))
             same == {n \in DOMAIN cache : LOWER(n) = LOWER(name)}
         IN IF name = <<>> THEN [db |-> FALSE, name |-> name, id |-> None]
            ELSE IF same # {}
                 THEN [db |-> FALSE, name |-> name, id |-> cache[CHOOSE n \in same : TRUE]]
                 ELSE [db |-> TRUE, name |-> name, id |-> None]

\* a name that is empty after the trim is inserted like any other name
Resolve_BlankCreates(cell, cache) ==
    IF ~(Truthy(cell) /\ ~isna(cell))
    THEN [db |-> FALSE, name |-> <<>>, id |-> None]
    ELSE LET name == strip(str(cell))
         IN IF name \in DOMAIN cache THEN [db |-> FALSE, name |-> name, id |-> cache[name]]
            ELSE [db |-> TRUE, name |-> name, id |-> None]

\* what _get_or_create_cached does before it reaches the database:
\* [db |-> TRUE] when an insert is needed
Resolve(cell, cache) ==
    IF ~(Truthy(cell) /\ ~isna(cell))
    THEN [db |-> FALSE, name |-> <<>>, id |-> None]
    ELSE LET name == strip(str(cell))
         IN IF name = <<>> THEN [db |-> FALSE, name |-> name, id |-> None]
            ELSE IF name \in DOMAIN cache THEN [db |-> FALSE, name |-> name, id |-> cache[name]]
            ELSE [db |-> TRUE, name |-> name, id |-> None]

\* project_id = self._get_or_create_cached(..., self.project_cache, 'project')
ResolveProject(p) ==
    /\ pc[p] = "project"
    /\ LET r == Resolve(get(CurrentRow(p), "project_name", NoneCell), project_cache[p])
       IN IF ~r.db
          THEN /\ Goto(p, "namespace", [loc[p] EXCEPT !.project_id = r.id], call[p])
               /\ UNCHANGED <<faultsLeft, project, project_cache>>
          ELSE \E ok \in Outcomes :
                 /\ Spend(ok)
                 /\ project' = get_session(project, [id |-> Len(project) + 1, name |-> r.name], ok)
                 /\ IF ok
                    THEN LET id == Len(project) + 1
                         IN /\ project_cache' = [project_cache EXCEPT
                                                   ![p] = CachePut(@, r.name, id)]
                            /\ Goto(p, "namespace", [loc[p] EXCEPT !.project_id = id],
                                    [call[p] EXCEPT !.projects = @ + 1, !.cached = @ + 1])
                    ELSE /\ Finish(p, FALSE, loc[p], LogFault(call[p], ok, "project", 0))
                         /\ UNCHANGED project_cache
    /\ resolved' = [resolved EXCEPT ![p] =
                        IF pc'[p] = "namespace" /\ loc'[p].project_id # None
                        THEN Append(@, [row |-> idx[p], table |-> "project",
                                        id |-> loc'[p].project_id, hit |-> project' = project])
                        ELSE @]
    /\ UNCHANGED <<source, mode, page, namespace, category, page_category,
                   namespace_cache, pagesAtReturn, http>>

\* namespace_id = self._get_or_create_cached(..., self.namespace_cache, 'namespace')
ResolveNamespace(p) ==
    /\ pc[p] = "namespace"
    /\ LET r == Resolve(get(CurrentRow(p), "namespace_name", NoneCell), namespace_cache[p])
       IN IF ~r.db
          THEN /\ Goto(p, "create", [loc[p] EXCEPT !.namespace_id = r.id], call[p])
               /\ UNCHANGED <<faultsLeft, namespace, namespace_cache>>
          ELSE \E ok \in Outcomes :
                 /\ Spend(ok)
                 /\ namespace' = get_session(namespace, [id |-> Len(namespace) + 1, name |-> r.name], ok)
                 /\ IF ok
                    THEN LET id == Len(namespace) + 1
                         IN /\ namespace_cache' = [namespace_cache EXCEPT
                                                     ![p] = CachePut(@, r.name, id)]
                            /\ Goto(p, "create", [loc[p] EXCEPT !.namespace_id = id],
                                    [call[p] EXCEPT !.namespaces = @ + 1, !.cached = @ + 1])
                    ELSE /\ Finish(p, FALSE, loc[p], LogFault(call[p], ok, "namespace", 0))
                         /\ UNCHANGED namespace_cache
    /\ resolved' = [resolved EXCEPT ![p] =
                        IF pc'[p] = "create" /\ loc'[p].namespace_id # None
                        THEN Append(@, [row |-> idx[p], table |-> "namespace",
                                        id |-> loc'[p].namespace_id,
                                        hit |-> namespace' = namespace])
                        ELSE @]
    /\ UNCHANGED <<source, mode, page, project, category, page_category,
                   project_cache, pagesAtReturn, http>>

\* views=int(row.get('view_count', 0) or 0)
Views(row) ==
    LET x == get(row, "view_count", IntCell(0))
    IN int(IF Truthy(x) THEN x ELSE IntCell(0))

\* Page(...) is built, then PageRepository.create checks the title again:
\* if self.get_by_title(page.title): return None
CreateCheck(p) ==
    /\ pc[p] = "create"
    /\ LET v == Views(CurrentRow(p))
           nl == [loc[p] EXCEPT !.views = v.v,
                                !.text = strip(str(get(CurrentRow(p), "text", StrCell(<<>>))))]
       IN IF ~v.ok
          THEN \* int() raises, caught by except Exception: return False
               /\ Finish(p, FALSE, loc[p], call[p])
               /\ UNCHANGED faultsLeft
          ELSE \E ok \in Outcomes :
                 /\ Spend(ok)
                 /\ LET lg == LogFault(call[p], ok, "create.get_by_title", 0)
                    IN IF get_by_title(nl.title, ok)
                       THEN Finish(p, FALSE, nl, lg)
                       ELSE Goto(p, "insert", nl, lg)
    /\ UNCHANGED <<source, mode, tables, project_cache, namespace_cache, pagesAtReturn, resolved, http>>

\* the result of create is not looked at: the categories of the record are
\* processed for the identifier the page would have got
InsertPage_CategoriesAnyway(p) ==
    /\ pc[p] = "insert"
    /\ \E ok \in Outcomes :
         /\ Spend(ok)
         /\ LET id == Len(page) + 1
                c == get(CurrentRow(p), "categories", NoneCell)
                toks == IF Truthy(c) /\ ~isna(c) THEN CategoryTokens(str(c)) ELSE <<>>
                lg == IF ok THEN [call[p] EXCEPT !.pages = @ + 1]
                      ELSE LogFault(call[p], ok, "create.insert", 0)
                nl == [loc[p] EXCEPT !.page_id = id, !.tokens = toks]
            IN /\ page' = IF ok
                          THEN Append(page, [id |-> id, title |-> loc[p].title,
                                             text |-> loc[p].text, views |-> loc[p].views,
                                             status |-> "stub",
                                             project_id |-> loc[p].project_id,
                                             namespace_id |-> loc[p].namespace_id])
                          ELSE page
               /\ IF toks = <<>>
                  THEN Finish(p, ok, nl, lg)
                  ELSE Goto(p, "cat_get", [nl EXCEPT !.ti = 1], lg)
    /\ UNCHANGED <<source, mode, project, namespace, category, page_category,
                   project_cache, namespace_cache, pagesAtReturn, resolved, http>>

\* process_row_with_repository without the test of what create returned:
\* a failed insert is reported as a created page
InsertPage_IgnoresFailure(p) ==
    /\ pc[p] = "insert"
    /\ \E ok \in Outcomes :
         /\ Spend(ok)
         /\ IF ok
            THEN LET id == Len(page) + 1
                     c == get(CurrentRow(p), "categories", NoneCell)
                     toks == IF Truthy(c) /\ ~isna(c) THEN CategoryTokens(str(c)) ELSE <<>>
                     lg == [call[p] EXCEPT !.pages = @ + 1]
                     nl == [loc[p] EXCEPT !.page_id = id, !.tokens = toks]
                 IN /\ page' = Append(page, [id |-> id, title |-> loc[p].title,
                                             text |-> loc[p].text, views |-> loc[p].views,
                                             status |-> "stub",
                                             project_id |-> loc[p].project_id,
                                             namespace_id |-> loc[p].namespace_id])
                    /\ IF toks = <<>>
                       THEN Finish(p, TRUE, nl, lg)
                       ELSE Goto(p, "cat_get", [nl EXCEPT !.ti = 1], lg)
            ELSE /\ Finish(p, TRUE, loc[p], LogFault(call[p], ok, "create.insert", 0))
                 /\ UNCHANGED page
    /\ UNCHANGED <<source, mode, project, namespace, category, page_category,
                   project_cache, namespace_cache, pagesAtReturn, resolved, http>>

\* the INSERT INTO page ... RETURNING id of PageRepository.create, then
\* if not created or not created.id: return False, then the categories field
InsertPage(p) ==
    /\ pc[p] = "insert"
    /\ \E ok \in Outcomes :
         /\ Spend(ok)
         /\ page' = get_session(page, [id |-> Len(page) + 1, title |-> loc[p].title,
                                       text |-> loc[p].text, views |-> loc[p].views,
                                       status |-> "stub",
                                       project_id |-> loc[p].project_id,
                                       namespace_id |-> loc[p].namespace_id], ok)
         /\ IF ok
            THEN LET id == Len(page) + 1
                     c == get(CurrentRow(p), "categories", NoneCell)
                     toks == IF Truthy(c) /\ ~isna(c) THEN CategoryTokens(str(c)) ELSE <<>>
                     lg == [call[p] EXCEPT !.pages = @ + 1]
                     nl == [loc[p] EXCEPT !.page_id = id, !.tokens = toks]
                 IN IF toks = <<>>
                    THEN Finish(p, TRUE, nl, lg)
                    ELSE Goto(p, "cat_get", [nl EXCEPT !.ti = 1], lg)
            ELSE Finish(p, FALSE, loc[p], LogFault(call[p], ok, "create.insert", 0))
    /\ UNCHANGED <<source, mode, project, namespace, category, page_category,
                   project_cache, namespace_cache, pagesAtReturn, resolved, http>>

(* ---------------------- _process_categories_for_page ------------------- *)
CurrentToken(p) == loc[p].tokens[loc[p].ti]

\* CategoryRepository.get_by_name: LIMIT 1 without ORDER BY returns any one
\* matching row; None when nothing matches or the query raises
get_by_name(name, ok) == IF ok THEN CategoriesByName(name) ELSE {}

\* category = self.get_by_name(name) in get_or_create_by_name
CatGet(p) ==
    /\ pc[p] = "cat_get"
    /\ \E ok \in Outcomes :
         /\ Spend(ok)
         /\ LET lg == LogFault(call[p], ok, "get_by_name", loc[p].ti)
                found == get_by_name(CurrentToken(p), ok)
            IN IF found # {}
               THEN \E c \in found : Goto(p, "link", [loc[p] EXCEPT !.category_id = c.id], lg)
               ELSE Goto(p, "cat_create", loc[p], lg)
    /\ UNCHANGED <<source, mode, tables, project_cache, namespace_cache, pagesAtReturn, resolved, http>>

\* get_or_create_by_name returns what create returned: nothing, when create
\* found the name taken
CatCreateCheck_NoRefetch(p) ==
    /\ pc[p] = "cat_create"
    /\ \E ok \in Outcomes :
         /\ Spend(ok)
         /\ LET lg == LogFault(call[p], ok, "create.get_by_name", loc[p].ti)
            IN IF get_by_name(CurrentToken(p), ok) # {}
               THEN NextCategory(p, lg)
               ELSE Goto(p, "cat_insert", loc[p], lg)
    /\ UNCHANGED <<source, mode, tables, project_cache, namespace_cache, pagesAtReturn, resolved, http>>

\* the link is written with the identifier the category is going to get,
\* before the category row is inserted
CatCreateCheck_LinksFirst(p) ==
    /\ pc[p] = "cat_create"
    /\ \E ok \in Outcomes :
         /\ Spend(ok)
         /\ LET lg == LogFault(call[p], ok, "create.get_by_name", loc[p].ti)
            IN IF get_by_name(CurrentToken(p), ok) # {}
               THEN Goto(p, "cat_refetch", loc[p], lg)
               ELSE Goto(p, "link", [loc[p] EXCEPT !.category_id = Len(category) + 1], lg)
    /\ UNCHANGED <<source, mode, tables, project_cache, namespace_cache, pagesAtReturn, resolved, http>>

\* CategoryRepository.create: if self.get_by_name(category.name): return None
CatCreateCheck(p) ==
    /\ pc[p] = "cat_create"
    /\ \E ok \in Outcomes :
         /\ Spend(ok)
         /\ LET lg == LogFault(call[p], ok, "create.get_by_name", loc[p].ti)
            IN IF get_by_name(CurrentToken(p), ok) # {}
               THEN Goto(p, "cat_refetch", loc[p], lg)
               ELSE Goto(p, "cat_insert", loc[p], lg)
    /\ UNCHANGED <<source, mode, tables, project_cache, namespace_cache, pagesAtReturn, resolved, http>>

\* the INSERT INTO category of CategoryRepository.create, for Category(name=name)
CatInsert(p) ==
    /\ pc[p] = "cat_insert"
    /\ \E ok \in Outcomes :
         /\ Spend(ok)
         /\ category' = get_session(category, [id |-> Len(category) + 1,
                                               name |-> CurrentToken(p),
                                               status |-> "stub", text_content |-> <<>>], ok)
         /\ IF ok
            THEN Goto(p, "cat_refetch", loc[p], [call[p] EXCEPT !.categories = @ + 1])
            ELSE Goto(p, "cat_refetch", loc[p],
                      LogFault(call[p], ok, "create.insert_category", loc[p].ti))
    /\ UNCHANGED <<source, mode, page, project, namespace, page_category,
                   project_cache, namespace_cache, pagesAtReturn, resolved, http>>

\* return self.get_by_name(name), then if category and category.id
CatRefetch(p) ==
    /\ pc[p] = "cat_refetch"
    /\ \E ok \in Outcomes :
         /\ Spend(ok)
         /\ LET lg == LogFault(call[p], ok, "refetch.get_by_name", loc[p].ti)
                found == get_by_name(CurrentToken(p), ok)
            IN IF found # {}
               THEN \E c \in found : Goto(p, "link", [loc[p] EXCEPT !.category_id = c.id], lg)
               ELSE NextCategory(p, lg)
    /\ UNCHANGED <<source, mode, tables, project_cache, namespace_cache, pagesAtReturn, resolved, http>>

\* link_page_to_category without its except clause: the error of a failed
\* link insert reaches the except of process_row_with_repository
Link_Unhandled(p) ==
    /\ pc[p] = "link"
    /\ \E ok \in Outcomes :
         /\ Spend(ok)
         /\ IF ok
            THEN LET l == [page_id |-> loc[p].page_id, category_id |-> loc[p].category_id]
                 IN /\ page_category' = Append(page_category, l)
                    /\ NextCategory(p, [call[p] EXCEPT
                           !.links = Append(@, [tok |-> loc[p].ti, page_id |-> l.page_id,
                                                category_id |-> l.category_id])])
            ELSE /\ Finish(p, FALSE, loc[p], LogFault(call[p], ok, "link", loc[p].ti))
                 /\ UNCHANGED page_category
    /\ UNCHANGED <<source, mode, page, project, namespace, category,
                   project_cache, namespace_cache, pagesAtReturn, resolved, http>>

\* CategoryRepository.link_page_to_category: INSERT INTO page_category
Link(p) ==
    /\ pc[p] = "link"
    /\ \E ok \in Outcomes :
         /\ Spend(ok)
         /\ LET l == [page_id |-> loc[p].page_id, category_id |-> loc[p].category_id]
            IN /\ page_category' = get_session(page_category, l, ok)
               /\ IF ok
                  THEN NextCategory(p, [call[p] EXCEPT
                           !.links = Append(@, [tok |-> loc[p].ti, page_id |-> l.page_id,
                                                category_id |-> l.category_id])])
                  ELSE NextCategory(p, LogFault(call[p], ok, "link", loc[p].ti))
    /\ UNCHANGED <<source, mode, page, project, namespace, category,
                   project_cache, namespace_cache, pagesAtReturn, resolved, http>>

(* ------------------------------ aggregate.py --------------------------- *)
CATEGORY_SERVICE_URL == [service |-> "category", path |-> <<"categories">>]

PAGE_SERVICE_URL == [service |-> "page", path |-> <<"pages">>]

\* the routes of aggregate.py in the order of their declaration, all of them GET
AggregateRoutes ==
    <<[method |-> "GET", pattern |-> <<"categories", "{id}">>, endpoint |-> "get_category_by_id"],
      [method |-> "GET", pattern |-> <<"pages", "{id}">>, endpoint |-> "get_page_by_id"],
      [method |-> "GET", pattern |-> <<"pages", "stats">>, endpoint |-> "get_page_stats"],
      [method |-> "GET", pattern |-> <<"pages", "update_views", "{id}">>, endpoint |-> "update_views"],
      [method |-> "GET", pattern |-> <<"pages", "delete", "{id}">>, endpoint |-> "delete_page"]>>

\* the routes of pages_service.py
PageServiceRoutes ==
    <<[method |-> "GET", pattern |-> <<"pages", "stats">>, endpoint |-> "get_page_stats"],
      [method |-> "GET", pattern |-> <<"pages", "{id}">>, endpoint |-> "get_page_by_id"],
      [method |-> "PUT", pattern |-> <<"pages", "update_views", "{id}">>, endpoint |-> "update_views"],
      [method |-> "DELETE", pattern |-> <<"pages", "delete", "{id}">>, endpoint |-> "delete_page"]>>

\* the routes of category_service.py
CategoryServiceRoutes ==
    <<[method |-> "GET", pattern |-> <<"categories", "{id}">>, endpoint |-> "get_category_by_id"],
      [method |-> "GET", pattern |-> <<"categories", "search", "{id}">>,
       endpoint |-> "get_category_by_keyword"]>>

\* a path parameter takes one segment of the path
Matches(pattern, path) ==
    /\ Len(pattern) = Len(path)
    /\ \A i \in 1..Len(path) : pattern[i] = "{id}" \/ pattern[i] = path[i]

\* the router takes the first route, in the order of declaration, whose path
\* and method both match; 0 when there is none
FirstMatch(routes, method, path) ==
    LET full == {i \in 1..Len(routes) :
                    routes[i].method = method /\ Matches(routes[i].pattern, path)}
    IN IF full = {} THEN 0 ELSE CHOOSE i \in full : \A k \in full : i <= k

PathParam(pattern, path) ==
    LET at == {i \in 1..Len(path) : pattern[i] = "{id}"}
    IN IF at = {} THEN "none" ELSE path[CHOOSE i \in at : TRUE]

\* ids that a client puts into the path
PathIds == {"1", "2", "999"}

\* the requests a client sends to the aggregator
ClientPaths ==
    {<<"categories", i>> : i \in PathIds} \cup {<<"pages", i>> : i \in PathIds}
    \cup {<<"pages", "stats">>}
    \cup {<<"pages", "update_views", i>> : i \in PathIds}
    \cup {<<"pages", "delete", i>> : i \in PathIds}

\* the request each endpoint sends to its backing service
Forward(endpoint, id) ==
    CASE endpoint = "get_category_by_id" ->
            [method |-> "GET", service |-> CATEGORY_SERVICE_URL.service,
             path |-> CATEGORY_SERVICE_URL.path \o <<id>>]
      [] endpoint = "get_page_by_id" ->
            [method |-> "GET", service |-> PAGE_SERVICE_URL.service,
             path |-> PAGE_SERVICE_URL.path \o <<id>>]
      [] endpoint = "get_page_stats" ->
            [method |-> "GET", service |-> PAGE_SERVICE_URL.service,
             path |-> PAGE_SERVICE_URL.path \o <<"stats">>]
      [] endpoint = "update_views" ->
            [method |-> "PUT", service |-> PAGE_SERVICE_URL.service,
             path |-> PAGE_SERVICE_URL.path \o <<id>>]
      [] endpoint = "delete_page" ->
            [method |-> "DELETE", service |-> PAGE_SERVICE_URL.service,
             path |-> PAGE_SERVICE_URL.path \o <<"delete", id>>]

\* what a handler of a backing service returns: json.dumps(result), or None
Bodies == {"null", "text"}

\* statuses that the backing service, or whatever answers at its address,
\* gives instead of a result
ErrorStatuses == {404, 500, 503}

Response(status, body) == [kind |-> "response", status |-> status, body |-> body]

Unreachable == [kind |-> "unreachable", status |-> 0, body |-> "none"]

\* what requests.get / put / delete can come back with: the backing service
\* answers 404 for a path it does not declare and 405 for a declared path with
\* another method; otherwise its handler answers, or fails; or no connection
UpstreamAnswers(req) ==
    LET routes == IF req.service = "page" THEN PageServiceRoutes ELSE CategoryServiceRoutes
    IN {Unreachable} \cup
       (IF \A i \in 1..Len(routes) : ~Matches(routes[i].pattern, req.path)
        THEN {Response(404, "detail")}
        ELSE IF FirstMatch(routes, req.method, req.path) = 0
             THEN {Response(405, "detail")}
             ELSE {Response(200, b) : b \in Bodies}
                  \cup {Response(st, "detail") : st \in ErrorStatuses})

\* every exception of the request is answered like a failed connection
Translate_AlwaysGeneric(up) ==
    IF up.kind = "unreachable" \/ up.status >= 400
    THEN Response(500, "detail")
    ELSE Response(200, up.body)

\* response.raise_for_status(); return response.json(), with
\* except HTTPError: HTTPException(status_code=err.response.status_code) and
\* except RequestException: HTTPException(status_code=500)
Translate(up) ==
    IF up.kind = "unreachable" THEN Response(500, "detail")
    ELSE IF up.status >= 400 /\ up.status < 600 THEN Response(up.status, "detail")
    ELSE Response(200, up.body)

\* a GET request arrives and is routed to an endpoint
AggReceive ==
    /\ http.phase = "idle"
    /\ \E path \in ClientPaths :
         LET i == FirstMatch(AggregateRoutes, "GET", path)
         IN /\ i # 0
            /\ http' = [NoRequest EXCEPT !.phase = "routed", !.path = path,
                                         !.endpoint = AggregateRoutes[i].endpoint,
                                         !.id = PathParam(AggregateRoutes[i].pattern, path)]
    /\ UNCHANGED etl

\* response = requests.get(...) / requests.put(...) / requests.delete(...)
AggForward ==
    /\ http.phase = "routed"
    /\ LET req == Forward(http.endpoint, http.id)
       IN \E up \in UpstreamAnswers(req) :
            http' = [http EXCEPT !.phase = "answered", !.sent = req, !.upstream = up]
    /\ UNCHANGED etl

\* the endpoint returns, or raises HTTPException
AggReply ==
    /\ http.phase = "answered"
    /\ http' = [http EXCEPT !.phase = "replied", !.reply = Translate(http.upstream)]
    /\ UNCHANGED etl

\* the client has its answer
AggDone ==
    /\ http.phase = "replied"
    /\ http' = NoRequest
    /\ UNCHANGED etl

(* --------------------------- specifications ---------------------------- *)
Next ==
    \E p \in Procs :
        \/ Start(p)
        \/ Return(p)
        \/ BeginRow(p)
        \/ CheckExists(p)
        \/ ResolveProject(p)
        \/ ResolveNamespace(p)
        \/ CreateCheck(p)
        \/ InsertPage(p)
        \/ CatGet(p)
        \/ CatCreateCheck(p)
        \/ CatInsert(p)
        \/ CatRefetch(p)
        \/ Link(p)

Spec == Init /\ [][Next]_vars

SpecRerun == InitRerun /\ [][Next]_vars

SpecSequence == InitSequence /\ [][Next]_vars

NextAggregate == AggReceive \/ AggForward \/ AggReply \/ AggDone

SpecAggregate == InitAggregate /\ [][NextAggregate]_vars

SpecConcurrent == InitConcurrent /\ [][Next]_vars

\* run_simple_etl is one synchronous thread: the interpreter executes the
\* next statement as long as there is one, and every storage call returns,
\* with a result or with an error. So a step that stays possible is taken.
SpecReturns == InitReturns /\ [][Next]_vars /\ WF_vars(Next)

(* ------------------------------- claims -------------------------------- *)
\* run p is between two records (or has returned) and the other run has not
\* touched the store since: the store is as the last call of run p left it
Finished(p) ==
    /\ last[p].valid
    /\ pc[p] \in {"row", "done"}
    /\ \A q \in Procs \ {p} : pc[q] = "idle" \/ (mode \in {"rerun", "sequence"} /\ q < p)

\* C1: when the batch is run twice in sequence over the same source, the page
\* table has as many rows after the second run as after the first, and the
\* second run counts no record as created.
C1_RerunIdempotent ==
    pc[2] = "done" =>
        /\ Len(page) = pagesAtReturn[1]
        /\ pagesAtReturn[2] = pagesAtReturn[1]
        /\ stats[2].pages_created = 0
        /\ stats[2].pages_skipped = stats[2].total_rows

C1_Witness ==
    /\ pc[2] = "done"
    /\ stats[1].pages_created = 2
    /\ stats[2].pages_skipped = 2
    /\ Len(page) = 2

\* C2: after any sequence of records processed by one run, storage failures
\* included, no two page rows have case-insensitively equal titles.
C2_TitlesUniqueInRun ==
    \A i, j \in 1..Len(page) :
        i # j => LOWER(page[i].title) # LOWER(page[j].title)

TitleIsBlank(i) ==
    \/ "title" \notin source.cols
    \/ source.rows[i].title.k = "nan"
    \/ source.rows[i].title.k = "str" /\ strip(source.rows[i].title.s) = <<>>

\* C4: a record with a blank title makes process_row_with_repository return
\* false, is counted in pages_skipped and not in pages_created, writes no row
\* to any table and adds no cache entry.
C4_BlankTitleSkipped ==
    \A p \in Procs :
        (Finished(p) /\ TitleIsBlank(last[p].log.row)) =>
            /\ last[p].result = FALSE
            /\ last[p].after.pages_skipped = last[p].before.pages_skipped + 1
            /\ last[p].after.pages_created = last[p].before.pages_created
            /\ Sizes(p) = last[p].log.start

PairwiseDistinct(t) == \A i, j \in 1..Len(t) : i # j => t[i] # t[j]

\* no storage operation failed while the categories of the call were processed
CategoryFaultFree(lg) == \A i \in 1..Len(lg.faults) : lg.faults[i].tok = 0

\* the rows of page_category that link page pid, in insertion order
LinksOf(pid) == SelectSeq(page_category, LAMBDA l : l.page_id = pid)

\* the call of run p that just finished has inserted a page, and the store
\* still holds what that call left
Created(p) == Finished(p) /\ Len(page) = last[p].log.start.page + 1

C6_PartialFailureIsolated ==
    \A p \in Procs :
        LET toks == last[p].loc.tokens
            pid == last[p].loc.page_id
            lg == last[p].log
        IN Created(p) =>
               /\ last[p].result = TRUE
               /\ last[p].after.pages_created = last[p].before.pages_created + 1
               /\ page[pid].id = pid /\ page[pid].title = last[p].loc.title
               /\ \A j \in 1..Len(toks) :
                      (\A i \in 1..Len(lg.faults) : lg.faults[i].tok # j) =>
                          \E k \in 1..Len(lg.links) :
                              /\ lg.links[k].tok = j
                              /\ LOWER(category[lg.links[k].category_id].name) = LOWER(toks[j])
               /\ LinksOf(pid) = [k \in 1..Len(lg.links) |->
                                     [page_id |-> pid, category_id |-> lg.links[k].category_id]]

C6_Witness ==
    /\ Created(1)
    /\ last[1].loc.tokens = <<sA, sB, sC>>
    /\ last[1].log.faults = <<[op |-> "link", tok |-> 2]>>
    /\ Len(LinksOf(last[1].loc.page_id)) = 2
    /\ last[1].result = TRUE

\* C7: process_row_with_repository returns true exactly when the call has
\* persisted a new page row, whatever the storage calls did; so between two
\* records and at the end of the run pages_created is the number of page
\* rows the run has added.
C7_ResultTruthful ==
    /\ Finished(1) =>
           /\ last[1].result = TRUE <=> Len(page) = last[1].log.start.page + 1
           /\ last[1].result = FALSE <=> Len(page) = last[1].log.start.page
    /\ pc[1] \in {"row", "done"} => stats[1].pages_created = Len(page)

C7_Witness ==
    /\ pc[1] = "done"
    /\ stats[1].pages_created = 1
    /\ stats[1].pages_skipped = 1
    /\ faultsLeft = 0

\* C8: when a storage operation performed for a record before its page exists
\* fails (existence check, project or namespace insert, page insert), the
\* record is counted in pages_skipped, no page is created for it, and the run
\* goes on to the end of the source.
C8_FailureBeforePageSkips ==
    /\ \A p \in Procs :
           (Finished(p) /\ \E i \in 1..Len(last[p].log.faults) : last[p].log.faults[i].tok = 0) =>
               /\ last[p].result = FALSE
               /\ last[p].after.pages_skipped = last[p].before.pages_skipped + 1
               /\ Len(page) = last[p].log.start.page
    /\ pc[1] = "done" => stats[1].pages_created + stats[1].pages_skipped = Len(source.rows)

\* the file of the end-to-end scenario: all six columns, the one record "Go"
ScenarioSource == [cols |-> AllCols, rows |-> <<RowGo>>]

\* C9: the batch run on an empty store over the one record {Go, lang, 5, Eng,
\* Main, Languages;Programming} leaves one project, one namespace, one page
\* with views 5 and status stub that references them, two stub categories,
\* one link to each, and returns total_rows 1, pages_created 1, pages_skipped 0.
C9_EndToEnd ==
    (source = ScenarioSource /\ pc[1] = "done") =>
        /\ project = <<[id |-> 1, name |-> sEng]>>
        /\ namespace = <<[id |-> 1, name |-> sMain]>>
        /\ page = <<[id |-> 1, title |-> sGo, text |-> sLang, views |-> 5, status |-> "stub",
                     project_id |-> 1, namespace_id |-> 1]>>
        /\ category = <<[id |-> 1, name |-> sLanguages, status |-> "stub", text_content |-> <<>>],
                        [id |-> 2, name |-> sProgramming, status |-> "stub", text_content |-> <<>>]>>
        /\ page_category = <<[page_id |-> 1, category_id |-> 1],
                             [page_id |-> 1, category_id |-> 2]>>
        /\ stats[1] = [total_rows |-> 1, pages_created |-> 1, pages_skipped |-> 0]

C9_Witness ==
    /\ source = ScenarioSource
    /\ pc[1] = "done"
    /\ pc[2] = "idle"
    /\ Len(page_category) = 2

\* C10: processing a record whose title is already persisted, in any letter
\* case, returns false and leaves every table and both caches as they were,
\* whatever the other fields of the record are.
C10_ExistingTitleNoOp ==
    \A p \in Procs :
        (Finished(p) /\ last[p].log.existed) =>
            /\ last[p].result = FALSE
            /\ Sizes(p) = last[p].log.start
            /\ last[p].after.pages_created = last[p].before.pages_created

C10_Witness ==
    /\ Finished(2)
    /\ last[2].log.existed
    /\ last[2].log.title = sGo
    /\ page[1].title = LOWER(sGo)
    /\ project_cache[2] = EmptyCache
    /\ Len(project) = 1

\* the trimmed name that record e.row of run p gives for table e.table
NameOf(p, e) ==
    strip(str(get(File(p)[e.row],
                  IF e.table = "project" THEN "project_name" ELSE "namespace_name",
                  NoneCell)))

TableOf(t) == IF t = "project" THEN project ELSE namespace

\* C11: within one run, two records resolve their project_name (or their
\* namespace_name) to the same identifier exactly when the trimmed names are
\* the same string, letter case included, and the identifier is that of the
\* row holding this very name: names that differ only in case get two rows.
C11_ExactCaseResolution ==
    \A p \in Procs :
        \A i, j \in 1..Len(resolved[p]) :
            LET a == resolved[p][i]
                b == resolved[p][j]
            IN /\ a.id \in 1..Len(TableOf(a.table))
               /\ TableOf(a.table)[a.id].name = NameOf(p, a)
               /\ a.table = b.table => (a.id = b.id <=> NameOf(p, a) = NameOf(p, b))

C11_Witness ==
    /\ pc[1] = "done"
    /\ \E i, j \in 1..Len(resolved[1]) :
          /\ resolved[1][i].table = "project"
          /\ resolved[1][j].table = "project"
          /\ NameOf(1, resolved[1][i]) = sEng
          /\ NameOf(1, resolved[1][j]) = sEngLower
          /\ resolved[1][i].id # resolved[1][j].id
    /\ Len(project) = 2
    /\ project[1].name # project[2].name
    /\ LOWER(project[1].name) = LOWER(project[2].name)

\* C12: when two processes get-or-create a category of the same name, letter
\* case aside, that is not stored yet, only one row of that name is persisted,
\* however their lookups and inserts interleave. The two processes are runs
\* that import records of different titles, so that the page table has no
\* part in it.
C12_CategoryUniqueUnderContention ==
    (/\ mode = "concurrent"
     /\ LOWER(strip(str(source.rows[1].title))) # LOWER(strip(str(source.rows[2].title))))
    => \A i, j \in 1..Len(category) :
          i # j => LOWER(category[i].name) # LOWER(category[j].name)

\* no two rows of table t have the same name
NamesUnique(t) == \A i, j \in 1..Len(t) : i # j => t[i].name # t[j].name

\* C13: after batch runs executed one after another against the same store, no
\* two project rows have the same name and no two namespace rows have the same
\* name: a later run that meets a name already stored reuses its row.
C13_ReferenceNamesUniqueAcrossRuns ==
    NamesUnique(project) /\ NamesUnique(namespace)

\* cache holds name -> id for every row of table t
Seeded(cache, t) ==
    \A n \in DOMAIN CacheOf(t) : n \in DOMAIN cache /\ cache[n] = CacheOf(t)[n]

\* C16: when a run is about to process its first record, its project cache and
\* its namespace cache hold an entry name -> id for every project row and
\* every namespace row already in the store.
C16_CacheSeededBeforeFirstRecord ==
    \A p \in Procs :
        (pc[p] = "row" /\ idx[p] = 1) =>
            /\ Seeded(project_cache[p], project)
            /\ Seeded(namespace_cache[p], namespace)

\* C14: at every point of a run pages_created + pages_skipped is the number of
\* records processed so far, total_rows is the number of records of the
\* source, and the returned summary has pages_created + pages_skipped =
\* total_rows.
C14_SummaryAccounting ==
    \A p \in Procs :
        pc[p] # "idle" =>
            /\ stats[p].pages_created + stats[p].pages_skipped = idx[p] - 1
            /\ stats[p].total_rows = Len(File(p))
            /\ pc[p] = "done" =>
                  stats[p].pages_created + stats[p].pages_skipped = stats[p].total_rows

C14_Witness ==
    /\ pc[1] = "done"
    /\ stats[1] = [total_rows |-> 2, pages_created |-> 1, pages_skipped |-> 1]
    /\ Len(source.rows) = 2
    /\ faultsLeft < MaxFaults

\* one call of _get_or_create_cached by run p for the cell of the current
\* record, from cache and table t to cacheAfter and tAfter, returning idAfter
CachedCall(p, cell, cache, cacheAfter, t, tAfter, idAfter) ==
    LET name == strip(str(cell))
    IN (Truthy(cell) /\ ~isna(cell) /\ name # <<>>) =>
          IF name \in DOMAIN cache
          THEN /\ tables' = tables
               /\ faultsLeft' = faultsLeft
               /\ cacheAfter = cache
               /\ idAfter = cache[name]
               /\ pc'[p] # "row"
          ELSE \/ /\ tAfter = Append(t, [id |-> Len(t) + 1, name |-> name])
                  /\ Len(project') + Len(namespace') = Len(project) + Len(namespace) + 1
                  /\ <<page, category, page_category>>' = <<page, category, page_category>>
                  /\ DOMAIN cacheAfter = DOMAIN cache \cup {name}
                  /\ cacheAfter[name] = Len(t) + 1
                  /\ \A n \in DOMAIN cache : cacheAfter[n] = cache[n]
                  /\ idAfter = Len(t) + 1
                  /\ pc'[p] # "row"
               \/ /\ tables' = tables
                  /\ faultsLeft' = faultsLeft - 1
                  /\ cacheAfter = cache
                  /\ pc'[p] = "row"
                  /\ last'[p].result = FALSE

C17_Step ==
    /\ \A p \in Procs :
          /\ (pc[p] = "project" /\ pc'[p] # "project") =>
                CachedCall(p, get(CurrentRow(p), "project_name", NoneCell),
                           project_cache[p], project_cache'[p], project, project',
                           loc'[p].project_id)
          /\ (pc[p] = "namespace" /\ pc'[p] # "namespace") =>
                CachedCall(p, get(CurrentRow(p), "namespace_name", NoneCell),
                           namespace_cache[p], namespace_cache'[p], namespace, namespace',
                           loc'[p].namespace_id)
    /\ NamesUnique(project') /\ NamesUnique(namespace')

\* C17: within one run, _get_or_create_cached for a name that is in the cache
\* returns the cached identifier and neither reads nor writes the store; for a
\* name that is not in the cache it does one insert and, once that insert is
\* committed, stores name -> new id (an insert that fails stores nothing and
\* the record is skipped); so no name is inserted twice into a table.
C17_HitNoAccessMissOneInsert == [][C17_Step]_vars

C17_Witness ==
    /\ pc[1] = "done"
    /\ Len(project) = 1
    /\ \E i, j \in 1..Len(resolved[1]) :
          /\ resolved[1][i].table = "project" /\ ~resolved[1][i].hit
          /\ resolved[1][j].table = "project" /\ resolved[1][j].hit
          /\ resolved[1][i].row < resolved[1][j].row
          /\ resolved[1][i].id = resolved[1][j].id

\* id is the identifier of a row of table t
Exists(t, id) == \E r \in Rows(t) : r.id = id

C18_Step ==
    /\ Len(page') > Len(page) =>
          LET r == page'[Len(page')]
          IN /\ r.project_id # None => Exists(project, r.project_id)
             /\ r.namespace_id # None => Exists(namespace, r.namespace_id)
    /\ Len(page_category') > Len(page_category) =>
          LET l == page_category'[Len(page_category')]
          IN /\ Exists(page, l.page_id)
             /\ Exists(category, l.category_id)

\* C18: every project_id and namespace_id written on a page is the identifier
\* of a row that was committed before the page insert, and every link row is
\* written when its page row and its category row are both committed.
C18_ReferencesExistBeforeUse == [][C18_Step]_vars

C18_Witness ==
    /\ Len(page) = 1
    /\ page[1].project_id = 1
    /\ page[1].namespace_id = 1
    /\ Len(page_category) = 2
    /\ page_category[2] = [page_id |-> 1, category_id |-> 2]
    /\ faultsLeft < MaxFaults

\* the view_count of record i is missing (no such column, or an empty cell)
\* or is not a number
ViewCountUnusable(i) ==
    \/ "view_count" \notin source.cols
    \/ source.rows[i].view_count.k \in {"none", "nan"}
    \/ source.rows[i].view_count.k = "str" /\ ~int(source.rows[i].view_count).ok

\* C19: a record with a non-blank title that is not stored yet, whose
\* view_count is missing or not numeric, is created as a page with views = 0
\* and counted as created.
C19_ViewCountDefaultsToZero ==
    \A p \in Procs :
        (/\ Finished(p)
         /\ ~TitleIsBlank(last[p].log.row)
         /\ ~last[p].log.existed
         /\ ViewCountUnusable(last[p].log.row)) =>
            /\ last[p].result = TRUE
            /\ Len(page) = last[p].log.start.page + 1
            /\ page[Len(page)].views = 0
            /\ last[p].after.pages_created = last[p].before.pages_created + 1

CategoryLabels == {"cat_get", "cat_create", "cat_insert", "cat_refetch", "link"}

\* C20: when PageRepository.create gives no page for a record, the call
\* returns false and no category is looked up, no category is inserted and no
\* link is inserted for that record: category work happens only for a page
\* that this call has created.
C20_NoCategoryWorkWithoutPage ==
    \A p \in Procs :
        /\ pc[p] \in CategoryLabels =>
              /\ call[p].pages = 1
              /\ Len(page) = call[p].start.page + 1
              /\ loc[p].page_id = Len(page)
        /\ (Finished(p) /\ last[p].log.pages = 0) =>
              /\ last[p].result = FALSE
              /\ Len(category) = last[p].log.start.category
              /\ Len(page_category) = last[p].log.start.page_category
              /\ \A i \in 1..Len(last[p].log.faults) : last[p].log.faults[i].tok = 0

C20_Witness ==
    /\ Finished(1)
    /\ last[1].log.pages = 0
    /\ \E i \in 1..Len(last[1].log.faults) : last[1].log.faults[i].op = "create.insert"
    /\ get(source.rows[last[1].log.row], "categories", NoneCell) = StrCell(sLangProg)
    /\ Len(category) = 0

\* C15: whatever endpoint of the aggregator handles a request, an error
\* status of the backing service is answered with the same status, a backing
\* service that cannot be reached is answered with 500, and a successful
\* answer is passed on with status 200 and the body of the backing service.
C15_ErrorTranslation ==
    http.phase = "replied" =>
        /\ http.sent = Forward(http.endpoint, http.id)
        /\ (http.upstream.kind = "response" /\ http.upstream.status >= 400) =>
              http.reply.status = http.upstream.status
        /\ http.upstream.kind = "unreachable" => http.reply.status = 500
        /\ (http.upstream.kind = "response" /\ http.upstream.status < 400) =>
              /\ http.reply.status = 200
              /\ http.reply.body = http.upstream.body

C15_Witness ==
    /\ http.phase = "replied"
    /\ http.endpoint = "get_category_by_id"
    /\ http.id = "999"
    /\ http.upstream = Response(404, "detail")
    /\ http.reply.status = 404

\* cells that hold no name: no value, a missing value, the empty text, blanks
AbsentCells == {NoneCell, NaN, StrCell(<<>>), StrCell(sBlank)}

\* record i gives no name in column col
NameAbsent(i, col) == get(source.rows[i], col, NoneCell) \in AbsentCells

\* record i is one that a failure-free call turns into a page, whatever its
\* project_name and namespace_name are
Importable(lg) ==
    /\ lg.title # <<>>
    /\ ~lg.existed
    /\ ~ViewCountUnusable(lg.row)

\* C21: for a record whose project_name (namespace_name) is absent, empty, a
\* missing value or blanks only, no project (namespace) row is inserted, the
\* cache stays as it was, and the record is imported all the same, its page
\* carrying no project (namespace) reference.
C21_AbsentReferenceNoCreation ==
    \A p \in Procs :
        /\ \A c \in AbsentCells :
              /\ Resolve(c, project_cache[p]) = [db |-> FALSE, name |-> <<>>, id |-> None]
              /\ Resolve(c, namespace_cache[p]) = [db |-> FALSE, name |-> <<>>, id |-> None]
        /\ (Finished(p) /\ NameAbsent(last[p].log.row, "project_name")) =>
              /\ Len(project) = last[p].log.start.project
              /\ Sizes(p).project_cache = last[p].log.start.project_cache
              /\ last[p].loc.project_id = None
              /\ Importable(last[p].log) =>
                    /\ last[p].result = TRUE
                    /\ Len(page) = last[p].log.start.page + 1
                    /\ page[Len(page)].project_id = None
        /\ (Finished(p) /\ NameAbsent(last[p].log.row, "namespace_name")) =>
              /\ Len(namespace) = last[p].log.start.namespace
              /\ Sizes(p).namespace_cache = last[p].log.start.namespace_cache
              /\ last[p].loc.namespace_id = None
              /\ Importable(last[p].log) =>
                    /\ last[p].result = TRUE
                    /\ Len(page) = last[p].log.start.page + 1
                    /\ page[Len(page)].namespace_id = None

C21_Witness ==
    /\ Finished(1)
    /\ source.rows[last[1].log.row].project_name = StrCell(sBlank)
    /\ last[1].result = TRUE
    /\ page[Len(page)].title = sPy
    /\ page[Len(page)].project_id = None
    /\ page[Len(page)].namespace_id = 1
    /\ Len(project) = 0

\* C22: in a single process, a category name that equals the name of a stored
\* category, letter case aside, is resolved to that row and nothing is
\* inserted; a name that matches none is inserted once, with status "stub" and
\* an empty body; so no two category rows have names that are equal without
\* regard to case.
C22_CategoryCreatedAtMostOnce ==
    mode # "concurrent" =>
        /\ \A i, j \in 1..Len(category) :
              i # j => LOWER(category[i].name) # LOWER(category[j].name)
        /\ \A i \in 1..Len(category) :
              /\ category[i].id = i
              /\ category[i].status = "stub"
              /\ category[i].text_content = <<>>
        /\ \A p \in Procs :
              pc[p] = "link" =>
                  /\ loc[p].category_id \in 1..Len(category)
                  /\ LOWER(category[loc[p].category_id].name) = LOWER(CurrentToken(p))

\* C23: when two processes get-or-create the same category name at the same
\* time and no storage call fails, the re-fetch of each call finds a stored
\* row of that name, letter case aside, with an identifier, also for the
\* caller whose create found the name taken; so every call links its page.
C23_RefetchToleratesLostRace ==
    mode = "concurrent" =>
        \A p \in Procs :
            /\ pc[p] = "cat_refetch" => CategoriesByName(CurrentToken(p)) # {}
            /\ pc[p] = "link" =>
                  \E r \in Rows(category) :
                      /\ r.id = loc[p].category_id
                      /\ r.id # None
                      /\ LOWER(r.name) = LOWER(CurrentToken(p))
            /\ (last[p].valid /\ pc[p] \in {"row", "done"} /\ last[p].result = TRUE) =>
                  /\ Len(last[p].log.links) = Len(last[p].loc.tokens)
                  /\ \A k \in 1..Len(last[p].log.links) : last[p].log.links[k].tok = k

\* run 1 is about to re-fetch a name that it did not insert: between its
\* lookup and its create, run 2 has inserted it
C23_Witness ==
    /\ mode = "concurrent"
    /\ pc[1] = "cat_refetch"
    /\ call[1].categories = 0
    /\ call[2].categories = 1
    /\ loc[1].ti = 1
    /\ Len(category) = 1
    /\ LOWER(category[1].name) = LOWER(CurrentToken(1))

\* how many non-empty names the categories cell of record i holds
TokenCount(i) ==
    LET cell == get(source.rows[i], "categories", NoneCell)
        parts == IF Truthy(cell) /\ ~isna(cell) THEN split(str(cell), ";") ELSE <<>>
    IN Cardinality({k \in 1..Len(parts) : strip(parts[k]) # <<>>})

\* C24: a record that names the same category more than once (the same token,
\* or tokens that differ in letter case or in blanks around them) gets one link
\* row for each token, the same pair (page_id, category_id) as often as the
\* name occurs, and the category is stored once.
C24_DuplicateTokensDuplicateLinks ==
    /\ CategoryTokens(<<"a", ";", " ", "a", " ", ";", "A">>) = <<sALower, sALower, sA>>
    /\ \A p \in Procs :
          LET toks == last[p].loc.tokens
              links == LinksOf(last[p].loc.page_id)
          IN Created(p) =>
                /\ Len(links) = TokenCount(last[p].log.row)
                /\ Len(toks) = Len(links)
                /\ \A j \in 1..Len(links) :
                      /\ LOWER(category[links[j].category_id].name) = LOWER(toks[j])
                      /\ Cardinality(CategoriesByName(toks[j])) = 1
                /\ \A i, j \in 1..Len(links) :
                      LOWER(toks[i]) = LOWER(toks[j]) => links[i] = links[j]

C24_Witness ==
    /\ Created(1)
    /\ last[1].loc.tokens = <<sALower, sA, sALower>>
    /\ Len(category) = 1
    /\ page_category = <<[page_id |-> 1, category_id |-> 1], [page_id |-> 1, category_id |-> 1],
                         [page_id |-> 1, category_id |-> 1]>>

\* the title that record i of the file gives, trimmed
TitleOf(i) == strip(str(get(source.rows[i], "title", StrCell(<<>>))))

\* the stored page row r carries the fields of record i
CarriesRecord(r, i) ==
    /\ r.title = TitleOf(i)
    /\ r.text = strip(str(get(source.rows[i], "text", StrCell(<<>>))))
    /\ Views(source.rows[i]).ok
    /\ r.views = Views(source.rows[i]).v

\* C25: a run works on one record at a time, in the order of the source; so
\* when two records of the source have case-insensitively equal titles, the
\* page that is stored carries the fields of the earlier record and the later
\* record is skipped.
C25_EarlierRecordWins ==
    /\ \A p \in Procs : pc[p] \notin {"idle", "row", "done"} => call[p].row = idx[p]
    /\ (mode = "rerun" /\ pc[1] = "done") =>
          \A i, j \in 1..Len(source.rows) :
              (i < j /\ TitleOf(i) # <<>> /\ LOWER(TitleOf(i)) = LOWER(TitleOf(j))) =>
                  /\ Cardinality(PagesByTitle(TitleOf(i))) = 1
                  /\ \A r \in PagesByTitle(TitleOf(i)) : CarriesRecord(r, i)


IsPrefix(a, b) == Len(a) <= Len(b) /\ SubSeq(b, 1, Len(a)) = a

C26_Step ==
    IF faultsLeft' < faultsLeft
    THEN /\ tables' = tables
         /\ \E p \in Procs : Len(call'[p].faults) = Len(call[p].faults) + 1
    ELSE /\ \A i \in 1..Len(tables) :
                /\ IsPrefix(tables[i], tables'[i])
                /\ Len(tables'[i]) <= Len(tables[i]) + 1
         /\ Cardinality({i \in 1..Len(tables) : tables'[i] # tables[i]}) <= 1

C27_ViewsNonNegative ==
    \A i \in 1..Len(page) : page[i].views \in Int /\ page[i].views >= 0


C28_Step ==
    \A p \in Procs :
        /\ idx'[p] # idx[p] => pc[p] = "idle" \/ idx'[p] = idx[p] + 1
        /\ pc[p] # "idle" /\ pc'[p] = "row" /\ <<pc[p], call[p]>> # <<pc'[p], call'[p]>>
               => /\ idx'[p] = idx[p] + 1
                  /\ call'[p].row = idx[p]
        /\ pc[p] = "row" /\ pc'[p] \notin {"row", "done"} => call'[p].row = idx[p]
        /\ pc[p] \notin {"idle", "row", "done"}
               => /\ call'[p].row = call[p].row
                  /\ idx'[p] = idx[p] => pc'[p] \notin {"idle", "row", "done"}

C28_Counted ==
    \A p \in Procs :
        /\ pc[p] \notin {"idle", "row", "done"} => call[p].row = idx[p]
        /\ pc[p] # "idle" =>
               /\ idx[p] \in 1..(Len(File(p)) + 1)
               /\ stats[p].pages_created + stats[p].pages_skipped
                      = idx[p] - 1
        /\ pc[p] = "done" =>
               /\ idx[p] = Len(File(p)) + 1
               /\ stats[p].pages_created + stats[p].pages_skipped = stats[p].total_rows
               /\ stats[p].total_rows = Len(File(p))

\* C28: when every storage call returns, with a result or with an error, the
\* run reaches its return. The Row Processor is called for the records in
\* file order, once each: a call is of the record the loop is at, the loop
\* moves on by one record when the call returns, whatever it returned, and
\* at the return the calls counted are as many as the records of the file.
C28_EveryRecordOnceAndRunEnds ==
    /\ [][C28_Step]_vars
    /\ []C28_Counted
    /\ <>(pc[1] = "done")

C28_Witness ==
    /\ pc[1] = "done"
    /\ Len(File(1)) = 2
    /\ stats[1].pages_skipped = 2
    /\ faultsLeft = 0


\* every entry name -> id of cache is a row of table t with that id and name
Sound(cache, t) ==
    \A n \in DOMAIN cache : \E r \in Rows(t) : r.id = cache[n] /\ r.name = n

\* the call that run p has just finished failed on its insert into table
FailedInsert(p, table) ==
    /\ Finished(p)
    /\ \E i \in 1..Len(last[p].log.faults) : last[p].log.faults[i].op = table

\* C29: each entry name -> id of a run's project cache or namespace cache is
\* a committed row of the matching table with that id and that name. When
\* the insert of a name fails, the name is not in the cache afterwards, the
\* cache is as large as before the call, and the call returns False without
\* creating a page.
C29_CacheSound ==
    \A p \in Procs :
        /\ Sound(project_cache[p], project)
        /\ Sound(namespace_cache[p], namespace)
        /\ FailedInsert(p, "project") =>
               /\ Cardinality(DOMAIN project_cache[p]) = last[p].log.start.project_cache
               /\ strip(str(get(File(p)[last[p].log.row], "project_name", NoneCell)))
                      \notin DOMAIN project_cache[p]
               /\ last[p].result = FALSE
               /\ Len(page) = last[p].log.start.page
        /\ FailedInsert(p, "namespace") =>
               /\ Cardinality(DOMAIN namespace_cache[p]) = last[p].log.start.namespace_cache
               /\ strip(str(get(File(p)[last[p].log.row], "namespace_name", NoneCell)))
                      \notin DOMAIN namespace_cache[p]
               /\ last[p].result = FALSE
               /\ Len(page) = last[p].log.start.page

C29_Witness ==
    /\ FailedInsert(1, "namespace")
    /\ last[1].log.projects = 1
    /\ Cardinality(DOMAIN project_cache[1]) = 1
    /\ namespace_cache[1] = EmptyCache
    /\ Len(project) = 1 /\ Len(namespace) = 0


C30_Step ==
    page_category' # page_category =>
        \E p \in Procs :
            LET l == page_category'[Len(page_category')]
            IN /\ page_category' = Append(page_category, l)
               /\ pc[p] = "link"
               /\ call[p].pages = 1
               /\ l.page_id = loc[p].page_id
               /\ l.page_id > call[p].start.page
               /\ mode # "concurrent" => l.page_id = call[p].start.page + 1
               /\ page[l.page_id].id = l.page_id
               /\ page[l.page_id].title = call[p].title
               /\ \E j \in 1..Len(loc[p].tokens) :
                      /\ loc[p].tokens = CategoryTokens(str(get(CurrentRow(p), "categories",
                                                                NoneCell)))
                      /\ LOWER(category[l.category_id].name) = LOWER(loc[p].tokens[j])

\* C30: a link row is inserted only by a call that has itself inserted the
\* page of the link, for the record that call is processing, and to a
\* category whose name equals, letter case apart, a trimmed token of that
\* record. A page that was stored before the call started gets no link row
\* from it.
C30_LinksOnlyForOwnPage == [][C30_Step]_vars

C30_Witness ==
    /\ pc[1] = "done"
    /\ Len(source.rows) = 2
    /\ source.rows[1] = source.rows[2]
    /\ Len(page) = 1
    /\ last[1].log.existed
    /\ Len(page_category) = 1
    /\ faultsLeft < MaxFaults
    /\ Len(CategoryTokens(str(get(source.rows[1], "categories", NoneCell)))) = 2


\* the routes of the backing service that a forwarded request is sent to
RoutesOf(service) == IF service = "page" THEN PageServiceRoutes ELSE CategoryServiceRoutes

\* C31: the method and path that an aggregator endpoint has sent to its
\* backing service are a method and path that this service declares, and the
\* request sent by update_views is routed to the page service's update_views
\* operation, the one that increments the views of the page.
C31_ForwardReachesOperation ==
    http.phase \in {"answered", "replied"} =>
        LET routes == RoutesOf(http.sent.service)
            i == FirstMatch(routes, http.sent.method, http.sent.path)
        IN /\ i # 0
           /\ http.endpoint = "update_views" => routes[i].endpoint = "update_views"

====
